---- MODULE Spec2Model ----
(***************************************************************************)
(* A model of perf-report-tool's ingestion pipeline (generate_report.py):  *)
(* the line parsers, the stack-collapse aggregation, the benchmark parser, *)
(* the newest-artifact selection, the report-directory resolver and the    *)
(* control flow of generate_report.                                        *)
(*                                                                         *)
(* Text is modelled as a sequence of one-character strings, so that        *)
(* split/strip/replace/int()/float() are computed as Python computes them. *)
(***************************************************************************)
EXTENDS Integers, Sequences, FiniteSets, TLC

VARIABLES
    pc,             \* position of the driver of the specification in use
    fileA, fileB,   \* collapsed-stack inputs (sequences of lines)
    call,           \* which input the last parse_collapsed_stacks call read
    top_n,          \* the top_n argument of that call
    func_counts,    \* func_counts of that call (insertion-ordered dict)
    top_funcs_df,   \* the frame parse_collapsed_stacks returned
    totals,         \* per input: the per-function totals of its call
    stat_file,      \* counter-stat input (sequence of lines)
    stat_rows,      \* rows of the frame parse_perf_stat returned
    massif_file,    \* heap-snapshot input (sequence of lines)
    massif_rows,    \* rows of the frame parse_valgrind_massif returned
    bench_doc,      \* the benchmark file: unreadable, malformed, or its JSON value
    bench_rows,     \* rows of the frame parse_google_benchmark returned
    now,            \* the wall clock, in ticks of 1/TicksPerSecond second
    existing,       \* the paths that exist under the report base directory
    returned,       \* the directories _unique_version_dir has returned, in call order
    listing,        \* a directory as iterdir/listdir yields it: [name, mtime] entries
    variant,        \* which script runs: "v1" (generate_report.py) or "v2" (src/)
    selected,       \* the name of the artifact selected from listing
    cfg,            \* the configuration file: missing, malformed, or its keys
    stat_dir,       \* the listing of the counter-stat directory
    collapsed_dir,  \* the listing of the collapsed-stack directory
    tpl_present,    \* whether tpl/report.html exists
    report_dir,     \* the local report_dir of generate_report, or Unbound
    selection,      \* the names selected: [stat, collapsed]
    flamegraph_files, \* the labels of the flamegraph links
    html,           \* the rendered document, or NoHtml
    written,        \* how often this run has written report.html
    steps,          \* the steps of generate_report completed so far
    raised          \* the exception that escaped the call, or "none"

stackVars == <<fileA, fileB, call, top_n, func_counts, top_funcs_df, totals>>

lineVars == <<stat_file, stat_rows, massif_file, massif_rows>>

benchVars == <<bench_doc, bench_rows>>

dirVars == <<now, existing, returned>>

selectVars == <<listing, variant, selected>>

envVars == <<cfg, stat_dir, collapsed_dir, tpl_present>>

runVars == <<report_dir, selection, flamegraph_files, html, written, steps>>

reportVars == <<envVars, runVars>>

vars == <<pc, raised, stackVars, lineVars, benchVars, dirVars, selectVars, reportVars>>

----------------------------------------------------------------------------
(* Bounds of the model *)

\* lines in the single collapsed-stack file of SpecStacks
MaxLines == 3
\* lines in each of the two files of SpecMerge
MaxPartLines == 2
\* largest top_n tried in SpecStacks
MaxTopN == 3
\* lines in a counter-stat file
MaxStatLines == 3
\* lines in a heap-snapshot file
MaxMassifLines == 3
\* entries in the benchmarks array
MaxBench == 2
\* calls of the report-directory resolver in one behaviour
MaxCalls == 3
\* the last tick of the clock
MaxNow == 5
\* entries in a directory listing
MaxEntries == 3
\* the largest modification time
MaxMtime == 2

----------------------------------------------------------------------------
(* Python text primitives *)

\* the end of a line
NL == <<"\n">>

Digits == {"0", "1", "2", "3", "4", "5", "6", "7", "8", "9"}

DigitVal(c) ==
    CASE c = "0" -> 0 [] c = "1" -> 1 [] c = "2" -> 2 [] c = "3" -> 3
      [] c = "4" -> 4 [] c = "5" -> 5 [] c = "6" -> 6 [] c = "7" -> 7
      [] c = "8" -> 8 [] c = "9" -> 9

\* str.isspace for the characters of the model
IsSpace(c) == c \in {" ", "\t", "\n"}

Contains(s, c) == \E i \in 1..Len(s) : s[i] = c

RECURSIVE LStrip(_)
LStrip(s) == IF s # <<>> /\ IsSpace(Head(s)) THEN LStrip(Tail(s)) ELSE s

RECURSIVE RStrip(_)
RStrip(s) ==
    IF s # <<>> /\ IsSpace(s[Len(s)]) THEN RStrip(SubSeq(s, 1, Len(s) - 1)) ELSE s

\* str.strip()
Strip(s) == RStrip(LStrip(s))

\* str.split(sep) for a one-character sep: empty fields are kept
RECURSIVE SplitOn(_, _)
SplitOn(s, sep) ==
    IF ~Contains(s, sep) THEN <<s>>
    ELSE LET i == CHOOSE j \in 1..Len(s) :
                      s[j] = sep /\ \A k \in 1..(j - 1) : s[k] # sep
         IN  <<SubSeq(s, 1, i - 1)>> \o SplitOn(SubSeq(s, i + 1, Len(s)), sep)

\* str.split() without arguments: runs of whitespace separate, no empty fields
RECURSIVE SplitWs(_)
SplitWs(s) ==
    LET t == LStrip(s) IN
    IF t = <<>> THEN <<>>
    ELSE LET ends == {j \in 1..Len(t) : IsSpace(t[j])}
             n == IF ends = {} THEN Len(t)
                  ELSE (CHOOSE j \in ends : \A k \in ends : j <= k) - 1
         IN  <<SubSeq(t, 1, n)>> \o SplitWs(SubSeq(t, n + 1, Len(t)))

\* str.rsplit(sep, 1) for a string that contains sep: <<before, after>> the last sep
RSplit1(s, sep) ==
    LET i == CHOOSE j \in 1..Len(s) :
                 s[j] = sep /\ \A k \in (j + 1)..Len(s) : s[k] # sep
    IN  <<SubSeq(s, 1, i - 1), SubSeq(s, i + 1, Len(s))>>

\* str.replace(c, "")
RECURSIVE Remove(_, _)
Remove(s, c) ==
    IF s = <<>> THEN <<>>
    ELSE (IF Head(s) = c THEN <<>> ELSE <<Head(s)>>) \o Remove(Tail(s), c)

AllDigits(s) == \A i \in 1..Len(s) : s[i] \in Digits

RECURSIVE DecVal(_)
DecVal(s) == IF s = <<>> THEN 0 ELSE 10 * DecVal(SubSeq(s, 1, Len(s) - 1)) + DigitVal(s[Len(s)])

\* int(text): surrounding whitespace is ignored, one optional sign, then one or
\* more digits; anything else is a ValueError (ok = FALSE)
IntParse(text) ==
    LET t == Strip(text)
        signed == t # <<>> /\ Head(t) \in {"+", "-"}
        d == IF signed THEN Tail(t) ELSE t
    IN  IF d # <<>> /\ AllDigits(d)
        THEN [ok |-> TRUE,
              val |-> IF signed /\ Head(t) = "-" THEN 0 - DecVal(d) ELSE DecVal(d)]
        ELSE [ok |-> FALSE, val |-> 0]


\* the length of the longest prefix of s made of digits
RECURSIVE DigitPrefixLen(_)
DigitPrefixLen(s) ==
    IF s # <<>> /\ Head(s) \in Digits THEN 1 + DigitPrefixLen(Tail(s)) ELSE 0

\* a decimal value m * 10^e in normal form: m has no trailing zero, zero is [0, 0]
RECURSIVE Norm(_, _)
Norm(m, e) ==
    IF m = 0 THEN [m |-> 0, e |-> 0]
    ELSE IF m % 10 = 0 THEN Norm(m \div 10, e + 1)
    ELSE [m |-> m, e |-> e]

\* float(text) for text that holds a digit (inf and nan hold none): surrounding
\* whitespace is ignored, then [sign] digits [. digits] [(e|E) [sign] digits]
\* with a digit before or after the point; anything else is a ValueError.
\* The value is kept exactly, as m * 10^e.
FloatFail == [ok |-> FALSE, val |-> [m |-> 0, e |-> 0]]

\* the exponent part: rest is what follows the mantissa
FloatExp(neg, mant, nfrac, rest) ==
    IF rest = <<>>
    THEN [ok |-> TRUE, val |-> Norm(IF neg THEN 0 - mant ELSE mant, 0 - nfrac)]
    ELSE IF Head(rest) \notin {"e", "E"} THEN FloatFail
    ELSE LET ex == IntParse(Tail(rest)) IN
         IF ~ex.ok \/ Strip(Tail(rest)) # Tail(rest) THEN FloatFail
         ELSE [ok |-> TRUE,
               val |-> Norm(IF neg THEN 0 - mant ELSE mant, ex.val - nfrac)]

\* the fraction part: rest is what follows the integer digits
FloatFrac(neg, intdigits, rest) ==
    IF rest # <<>> /\ Head(rest) = "."
    THEN LET n2 == DigitPrefixLen(Tail(rest)) IN
         IF Len(intdigits) + n2 = 0 THEN FloatFail
         ELSE FloatExp(neg, DecVal(intdigits \o SubSeq(Tail(rest), 1, n2)), n2,
                       SubSeq(Tail(rest), n2 + 1, Len(rest) - 1))
    ELSE IF intdigits = <<>> THEN FloatFail
    ELSE FloatExp(neg, DecVal(intdigits), 0, rest)

FloatUnsigned(neg, s) ==
    FloatFrac(neg, SubSeq(s, 1, DigitPrefixLen(s)),
              SubSeq(s, DigitPrefixLen(s) + 1, Len(s)))

FloatStripped(t) ==
    IF t # <<>> /\ Head(t) \in {"+", "-"}
    THEN FloatUnsigned(Head(t) = "-", Tail(t))
    ELSE FloatUnsigned(FALSE, t)

FloatParse(text) == FloatStripped(Strip(text))

\* str.startswith(prefix)
StartsWith(s, prefix) ==
    Len(s) >= Len(prefix) /\ SubSeq(s, 1, Len(prefix)) = prefix

----------------------------------------------------------------------------
(* Insertion-ordered dict: a sequence of [k, v] entries *)

HasKey(d, k) == \E i \in 1..Len(d) : d[i].k = k

\* d.get(k, default)
DictGet(d, k, default) ==
    IF HasKey(d, k) THEN d[CHOOSE i \in 1..Len(d) : d[i].k = k].v ELSE default

\* d[k] = v : an existing key keeps its position, a new key goes last
DictSet(d, k, v) ==
    IF HasKey(d, k)
    THEN [i \in 1..Len(d) |-> IF d[i].k = k THEN [k |-> k, v |-> v] ELSE d[i]]
    ELSE Append(d, [k |-> k, v |-> v])

Keys(d) == {d[i].k : i \in 1..Len(d)}

----------------------------------------------------------------------------
(* parse_collapsed_stacks *)

\* (a variant that stores the count instead of accumulating it)
StackLineOverwrite(stack_counts, line) ==
    IF ~Contains(line, " ") THEN stack_counts
    ELSE LET parts == RSplit1(line, " ")
             count == IntParse(parts[2])
         IN  IF ~count.ok THEN stack_counts
             ELSE DictSet(stack_counts, parts[1], count.val)

\* the body of the first loop for one line: the new stack_counts
StackLine(stack_counts, line) ==
    IF ~Contains(line, " ") THEN stack_counts
    ELSE LET parts == RSplit1(line, " ")
             count == IntParse(parts[2])
         IN  IF ~count.ok THEN stack_counts
             ELSE DictSet(stack_counts, parts[1],
                          DictGet(stack_counts, parts[1], 0) + count.val)

RECURSIVE StackCounts(_, _)
StackCounts(stack_counts, lines) ==
    IF lines = <<>> THEN stack_counts
    ELSE StackCounts(StackLine(stack_counts, Head(lines)), Tail(lines))

\* the inner loop: every element of stack.split(';') is credited with count
RECURSIVE CreditFuncs(_, _, _)
CreditFuncs(fc, funcs, count) ==
    IF funcs = <<>> THEN fc
    ELSE CreditFuncs(DictSet(fc, Head(funcs), DictGet(fc, Head(funcs), 0) + count),
                     Tail(funcs), count)

RECURSIVE FuncCounts(_, _)
FuncCounts(fc, stack_counts) ==
    IF stack_counts = <<>> THEN fc
    ELSE FuncCounts(CreditFuncs(fc, SplitOn(Head(stack_counts).k, ";"),
                                Head(stack_counts).v),
                    Tail(stack_counts))

Descending(rows) == \A i \in 1..(Len(rows) - 1) : rows[i].v >= rows[i + 1].v

Perms(n) == {p \in [1..n -> 1..n] : \A i, j \in 1..n : p[i] = p[j] => i = j}

\* df.sort_values("Samples", ascending=False): the default kind is quicksort,
\* which pandas documents as not stable, so rows of equal count may come out in
\* any order: every descending arrangement is an outcome
SortValues(rows) ==
    {[i \in 1..Len(rows) |-> rows[p[i]]] : p \in
        {q \in Perms(Len(rows)) :
            \A i \in 1..(Len(rows) - 1) : rows[q[i]].v >= rows[q[i + 1]].v}}

\* df.head(n) for n >= 0
DfHead(rows, n) == SubSeq(rows, 1, IF n < Len(rows) THEN n ELSE Len(rows))

\* the per-function totals of a dict, as a function of the function name
TotalsOf(fc) == [f \in Keys(fc) |-> DictGet(fc, f, 0)]

\* def parse_collapsed_stacks(collapsed_path, top_n=15)
DefaultTopN == 15

Input(which) ==
    CASE which = "A" -> fileA
      [] which = "B" -> fileB
      [] which = "AB" -> fileA \o fileB
      [] which = "BA" -> fileB \o fileA

ParseCollapsedStacks(which, n) ==
    LET stack_counts == StackCounts(<<>>, Input(which))
        fc == FuncCounts(<<>>, stack_counts)
    IN  /\ call' = which
        /\ top_n' = n
        /\ func_counts' = fc
        /\ \E sorted \in SortValues(fc) : top_funcs_df' = DfHead(sorted, n)
        /\ totals' = [totals EXCEPT ![which] = TotalsOf(fc)]
        /\ raised' = "none"
        /\ UNCHANGED <<fileA, fileB>>


----------------------------------------------------------------------------
(* parse_perf_stat *)

\* (a variant that leaves the thousands separators in)
StatValKeepCommas(parts) == parts[1]

\* parts[0].replace(",", "")
StatVal(parts) == Remove(parts[1], ",")

HasDigit(s) == \E i \in 1..Len(s) : s[i] \in Digits

\* the body of the loop for one line: the new rows
StatLine(rows, line) ==
    LET parts == SplitWs(Strip(line)) IN
    IF Len(parts) < 2 THEN rows
    ELSE LET val == StatVal(parts) IN
         IF Contains(val, "<") \/ ~HasDigit(val) THEN rows
         ELSE LET value == FloatParse(val) IN
              IF ~value.ok THEN rows      \* except ValueError: continue
              ELSE Append(rows, [Metric |-> parts[2], Value |-> value.val])

RECURSIVE StatRows(_, _)
StatRows(rows, lines) ==
    IF lines = <<>> THEN rows ELSE StatRows(StatLine(rows, Head(lines)), Tail(lines))

ParsePerfStat ==
    /\ stat_rows' = StatRows(<<>>, stat_file)
    /\ raised' = "none"
    /\ UNCHANGED stat_file

----------------------------------------------------------------------------
(* parse_valgrind_massif *)

MemHeapPrefix == <<"m", "e", "m", "_", "h", "e", "a", "p", "_", "B", "=">>

\* the loop: the sizes appended so far, or the ValueError of int(), which the
\* function does not catch
RECURSIVE MassifSizes(_, _)
MassifSizes(sizes, lines) ==
    IF lines = <<>> THEN [raised |-> "none", sizes |-> sizes]
    ELSE IF ~StartsWith(Head(lines), MemHeapPrefix) THEN MassifSizes(sizes, Tail(lines))
    ELSE LET size == IntParse(SplitOn(Strip(Head(lines)), "=")[2]) IN
         IF ~size.ok THEN [raised |-> "ValueError", sizes |-> sizes]
         ELSE MassifSizes(Append(sizes, size.val), Tail(lines))

\* pd.DataFrame({"Heap Size (Bytes)": sizes, "Snapshot": range(len(sizes))})
ParseValgrindMassif ==
    LET out == MassifSizes(<<>>, massif_file) IN
    /\ raised' = out.raised
    /\ massif_rows' = IF out.raised # "none" THEN <<>>
                      ELSE [i \in 1..Len(out.sizes) |->
                               [HeapSize |-> out.sizes[i], Snapshot |-> i - 1]]
    /\ UNCHANGED massif_file

----------------------------------------------------------------------------
(* parse_google_benchmark *)

\* JSON values: [t |-> "obj", f |-> a function of the keys], [t |-> "arr", a |-> a
\* sequence], [t |-> "str", s |-> characters], [t |-> "num", n |-> n], [t |-> "null"]

NameChars == <<"n", "a", "m", "e">>

CpuTimeChars == <<"c", "p", "u", "_", "t", "i", "m", "e">>

KeyChars(key) == IF key = "name" THEN NameChars ELSE CpuTimeChars

IsSubstring(x, s) ==
    \E i \in 0..(Len(s) - Len(x)) : SubSeq(s, i + 1, i + Len(x)) = x

\* `key in bench`: key membership for a dict, element membership for a list, substring
\* for a str, TypeError for a number or null
KeyIn(key, bench) ==
    CASE bench.t = "obj" -> [ok |-> TRUE, val |-> key \in DOMAIN bench.f]
      [] bench.t = "arr" ->
            [ok |-> TRUE,
             val |-> \E i \in 1..Len(bench.a) :
                         bench.a[i].t = "str" /\ bench.a[i].s = KeyChars(key)]
      [] bench.t = "str" -> [ok |-> TRUE, val |-> IsSubstring(KeyChars(key), bench.s)]
      [] OTHER -> [ok |-> FALSE, val |-> FALSE]

\* the loop over the entries: the records so far, or the exception of the entry
RECURSIVE BenchRecords(_, _)
BenchRecords(records, entries) ==
    IF entries = <<>> THEN [raised |-> "none", records |-> records]
    ELSE LET bench == Head(entries)
             hasName == KeyIn("name", bench)
         IN  IF ~hasName.ok THEN [raised |-> "TypeError", records |-> records]
             ELSE IF ~hasName.val THEN BenchRecords(records, Tail(entries))
             ELSE IF ~KeyIn("cpu_time", bench).val
                  THEN BenchRecords(records, Tail(entries))
             ELSE IF bench.t # "obj"       \* bench["name"] on a list or a str
                  THEN [raised |-> "TypeError", records |-> records]
             ELSE BenchRecords(
                      Append(records, [Benchmark |-> bench.f["name"],
                                       CpuTime |-> bench.f["cpu_time"]]),
                      Tail(entries))

\* what `for bench in data.get("benchmarks", [])` iterates over
BenchEntries(data) ==
    IF data.t # "obj" THEN [raised |-> "AttributeError", entries |-> <<>>]
    ELSE IF "benchmarks" \notin DOMAIN data.f THEN [raised |-> "none", entries |-> <<>>]
    ELSE IF data.f["benchmarks"].t = "arr"
         THEN [raised |-> "none", entries |-> data.f["benchmarks"].a]
    ELSE [raised |-> "TypeError", entries |-> <<>>]

\* the body of the try block: what it returns, or the exception it raises
BenchTry(doc) ==
    IF doc.kind = "unreadable" THEN [raised |-> "OSError", records |-> <<>>]
    ELSE IF doc.kind = "malformed" THEN [raised |-> "JSONDecodeError", records |-> <<>>]
    ELSE LET it == BenchEntries(doc.data) IN
         IF it.raised # "none" THEN [raised |-> it.raised, records |-> <<>>]
         ELSE BenchRecords(<<>>, it.entries)

\* except Exception: return the empty frame
ParseGoogleBenchmark ==
    LET out == BenchTry(bench_doc) IN
    /\ bench_rows' = IF out.raised = "none" THEN out.records ELSE <<>>
    /\ raised' = "none"
    /\ UNCHANGED bench_doc

----------------------------------------------------------------------------
(* _unique_version_dir, and the mkdir that follows it in generate_report *)

\* sub-second ticks of the clock
TicksPerSecond == 2

TwoDigits(n) ==
    LET d == <<"0", "1", "2", "3", "4", "5", "6", "7", "8", "9">>
    IN  <<d[((n \div 10) % 10) + 1], d[(n % 10) + 1]>>

\* datetime.now().strftime("%Y%m%d-%H%M%S"): whole seconds; the date, hour and
\* minute fields do not change over the modelled interval
Strftime(t) ==
    <<"2", "0", "2", "5", "0", "1", "0", "1", "-", "0", "0", "0", "0">>
        \o TwoDigits((t \div TicksPerSecond) % 60)

\* the path base_dir / requested, or base_dir / f"{requested}_{timestamp}"
UniqueVersionDir(requested) ==
    IF requested \notin existing THEN requested
    ELSE requested \o <<"_">> \o Strftime(now)

\* report_dir = _unique_version_dir(base_dir, version); report_dir.mkdir(exist_ok=True)
ResolveReportDir(requested) ==
    LET dir == UniqueVersionDir(requested) IN
    /\ returned' = Append(returned, [requested |-> requested, path |-> dir,
                                     existed |-> dir \in existing])
    /\ existing' = existing \cup {dir}

----------------------------------------------------------------------------
(* The selection of the newest artifact *)

PerfStatChars == <<"p", "e", "r", "f", "-", "s", "t", "a", "t">>

TxtChars == <<".", "t", "x", "t">>

EndsWith(s, suffix) ==
    Len(s) >= Len(suffix) /\ SubSeq(s, Len(s) - Len(suffix) + 1, Len(s)) = suffix

\* pathlib's Path.suffix: from the last dot, unless the name starts or ends with it
Suffix(name) ==
    LET dots == {i \in 1..Len(name) : name[i] = "."} IN
    IF dots = {} THEN <<>>
    ELSE LET i == CHOOSE d \in dots : \A e \in dots : e <= d IN
         IF i = 1 \/ i = Len(name) THEN <<>> ELSE SubSeq(name, i, Len(name))

\* the naming predicate of each kind of artifact, as each script writes it
Matches(v, kind, name) ==
    CASE v = "v2" /\ kind = "stat" -> StartsWith(name, PerfStatChars)
      [] v = "v2" /\ kind = "collapsed" -> Suffix(name) = TxtChars
      [] v = "v1" /\ kind = "stat" -> IsSubstring(PerfStatChars, name)
      [] v = "v1" /\ kind = "collapsed" -> EndsWith(name, TxtChars)

\* the matching entries, in listing order
RECURSIVE Filter(_, _, _)
Filter(v, kind, entries) ==
    IF entries = <<>> THEN <<>>
    ELSE (IF Matches(v, kind, Head(entries).name) THEN <<Head(entries)>> ELSE <<>>)
         \o Filter(v, kind, Tail(entries))

\* max(iterable, key=mtime): the first of the entries with the greatest key
MaxByMtime(entries) ==
    entries[CHOOSE i \in 1..Len(entries) :
                /\ \A j \in 1..Len(entries) : entries[j].mtime <= entries[i].mtime
                /\ \A j \in 1..(i - 1) : entries[j].mtime < entries[i].mtime]

\* sorted(list, key=mtime)[-1]: the sort is stable, so the last of the entries
\* with the greatest key
SortedLastByMtime(entries) ==
    entries[CHOOSE i \in 1..Len(entries) :
                /\ \A j \in 1..Len(entries) : entries[j].mtime <= entries[i].mtime
                /\ \A j \in (i + 1)..Len(entries) : entries[j].mtime < entries[i].mtime]

\* the selection of one kind of artifact from a listing: the entry, or the
\* exception of the empty case
SelectLatest(v, kind, entries) ==
    LET found == Filter(v, kind, entries) IN
    IF found = <<>>
    THEN [raised |-> IF v = "v2" THEN "ValueError" ELSE "IndexError", name |-> <<>>]
    ELSE [raised |-> "none",
          name |-> IF v = "v2" THEN MaxByMtime(found).name
                   ELSE SortedLastByMtime(found).name]

----------------------------------------------------------------------------
(* generate_report *)

Unbound == <<"<unbound>">>

NoHtml == [rendered |-> FALSE]

\* the keys p[...] that the nested configuration must hold, in the order read
NestedKeys == <<"perf_stat", "collapsed", "flamegraph", "report_output">>

\* the keys cfg[...] that the flat configuration must hold, in the order read
FlatKeys == <<"perf_stat_path", "collapsed_path", "flamegraph_path">>

AllIn(keys, have) == \A i \in 1..Len(keys) : keys[i] \in have

\* (a variant that writes the report as soon as the directory exists)
StepAfterWriteFirst(step) ==
    CASE step = "load" -> "resolve"
      [] step = "resolve" -> "mkdir"
      [] step = "mkdir" -> "write"
      [] step = "write" -> "select_stat"
      [] step = "select_stat" -> "select_collapsed"
      [] step = "select_collapsed" -> "flamegraphs"
      [] step = "flamegraphs" -> "parse"
      [] step = "parse" -> "render"
      [] step = "render" -> "done"

\* the order of the steps of generate_report
StepAfter(step) ==
    CASE step = "load" -> "resolve"
      [] step = "resolve" -> "mkdir"
      [] step = "mkdir" -> "select_stat"
      [] step = "select_stat" -> "select_collapsed"
      [] step = "select_collapsed" -> "flamegraphs"
      [] step = "flamegraphs" -> "parse"
      [] step = "parse" -> "render"
      [] step = "render" -> "write"
      [] step = "write" -> "done"

Completed(step) == /\ pc' = StepAfter(step)
                   /\ steps' = Append(steps, step)
                   /\ raised' = "none"

Fails(exception) == /\ pc' = "failed"
                    /\ raised' = exception
                    /\ steps' = steps

\* with open(config_path) as f: cfg = json.load(f)
LoadConfig ==
    /\ pc = "load"
    /\ IF cfg.kind = "missing" THEN Fails("FileNotFoundError")
       ELSE IF cfg.kind = "malformed" THEN Fails("JSONDecodeError")
       ELSE Completed("load")
    /\ UNCHANGED <<stackVars, lineVars, benchVars, dirVars, selectVars, envVars,
                   report_dir, selection, flamegraph_files, html, written>>

\* v2: the two branches of `if "paths" in cfg`; only the first binds report_dir
\* (and creates it). v1: root = config["project_root"], report_dir is joined
\* from it and the version.
ResolveDirectories(version) ==
    /\ pc = "resolve"
    /\ IF variant = "v1"
       THEN IF "project_root" \notin cfg.keys
            THEN Fails("KeyError") /\ UNCHANGED <<report_dir, existing, returned>>
            ELSE /\ report_dir' = version
                 /\ Completed("resolve")
                 /\ UNCHANGED <<existing, returned>>
       ELSE IF "paths" \in cfg.keys
            THEN IF ~AllIn(NestedKeys, cfg.paths)
                 THEN Fails("KeyError") /\ UNCHANGED <<report_dir, existing, returned>>
                 ELSE /\ ResolveReportDir(version)
                      /\ report_dir' = UniqueVersionDir(version)
                      /\ Completed("resolve")
            ELSE IF ~AllIn(FlatKeys, cfg.keys)
                 THEN Fails("KeyError") /\ UNCHANGED <<report_dir, existing, returned>>
                 ELSE /\ Completed("resolve")
                      /\ UNCHANGED <<report_dir, existing, returned>>
    /\ UNCHANGED <<stackVars, lineVars, benchVars, now, selectVars, envVars,
                   selection, flamegraph_files, html, written>>

\* report_dir.mkdir(parents=True, exist_ok=True) / os.makedirs(report_dir, exist_ok=True)
MakeReportDir ==
    /\ pc = "mkdir"
    /\ IF report_dir = Unbound
       THEN Fails("UnboundLocalError") /\ UNCHANGED existing
       ELSE existing' = existing \cup {report_dir} /\ Completed("mkdir")
    /\ UNCHANGED <<stackVars, lineVars, benchVars, now, returned, selectVars, envVars,
                   report_dir, selection, flamegraph_files, html, written>>

\* the lines of the counter-stat file of that name
StatContent(name) ==
    IF name = PerfStatChars THEN <<>>
    ELSE << <<"P", "e", "r", "f", " ", "s", "t", "a", "t">> \o NL,
            <<"1", ",", "2", " ", "c">> \o NL >>

\* the lines of the collapsed-stack file of that name
CollapsedContent(name) ==
    IF name = <<"a">> \o TxtChars THEN << <<"a", ";", "b", " ", "2">> \o NL >>
    ELSE << <<"a", ";", "a", " ", "1">> \o NL, <<"b", " ", "2">> \o NL >>

\* stat_file = max(...) ; the file is read when the frames are built
SelectStat ==
    /\ pc = "select_stat"
    /\ LET out == SelectLatest(variant, "stat", stat_dir) IN
       IF out.raised # "none"
       THEN Fails(out.raised) /\ UNCHANGED <<selection, stat_file>>
       ELSE /\ selection' = [selection EXCEPT !.stat = out.name]
            /\ stat_file' = StatContent(out.name)
            /\ Completed("select_stat")
    /\ UNCHANGED <<stackVars, stat_rows, massif_file, massif_rows, benchVars, dirVars,
                   selectVars, envVars, report_dir, flamegraph_files, html, written>>

\* collapsed_file = max(...)
SelectCollapsed ==
    /\ pc = "select_collapsed"
    /\ LET out == SelectLatest(variant, "collapsed", collapsed_dir) IN
       IF out.raised # "none"
       THEN Fails(out.raised) /\ UNCHANGED <<selection, fileA>>
       ELSE /\ selection' = [selection EXCEPT !.collapsed = out.name]
            /\ fileA' = CollapsedContent(out.name)
            /\ Completed("select_collapsed")
    /\ UNCHANGED <<fileB, call, top_n, func_counts, top_funcs_df, totals, lineVars,
                   benchVars, dirVars, selectVars, envVars, report_dir,
                   flamegraph_files, html, written>>

FlamegraphChars == <<"f", "l", "a", "m", "e", "g", "r", "a", "p", "h", "-">>

SvgChars == <<".", "s", "v", "g">>

\* str.replace(x, "")
RECURSIVE Erase(_, _)
Erase(s, x) ==
    IF s = <<>> THEN <<>>
    ELSE IF StartsWith(s, x) THEN Erase(SubSeq(s, Len(x) + 1, Len(s)), x)
    ELSE <<Head(s)>> \o Erase(Tail(s), x)

\* the flamegraph directory of the model
FlamegraphDir == {FlamegraphChars \o <<"1">> \o SvgChars, <<"a">> \o TxtChars}

\* the keys of flamegraph_files: the .svg names without "flamegraph-" and ".svg"
CollectFlamegraphs ==
    /\ pc = "flamegraphs"
    /\ flamegraph_files' =
           {Erase(Erase(f, FlamegraphChars), SvgChars) :
               f \in {g \in FlamegraphDir :
                         IF variant = "v2" THEN Suffix(g) = SvgChars
                         ELSE EndsWith(g, SvgChars)}}
    /\ Completed("flamegraphs")
    /\ UNCHANGED <<stackVars, lineVars, benchVars, dirVars, selectVars, envVars,
                   report_dir, selection, html, written>>

\* stat_df, top_funcs_df, gb_df
BuildDataframes ==
    /\ pc = "parse"
    /\ ParsePerfStat
    /\ ParseCollapsedStacks("A", DefaultTopN)
    /\ ParseGoogleBenchmark
    /\ pc' = StepAfter("parse")
    /\ steps' = Append(steps, "parse")
    /\ UNCHANGED <<massif_file, massif_rows, dirVars, selectVars, envVars, report_dir,
                   selection, flamegraph_files, html, written>>

\* v2: env.get_template("report.html") needs the template file; v1 renders the
\* literal of the script. generate_bar_chart gives the "no data" paragraph for an
\* empty frame.
Render ==
    /\ pc = "render"
    /\ IF variant = "v2" /\ ~tpl_present
       THEN Fails("TemplateNotFound") /\ html' = html
       ELSE /\ html' = [rendered |-> TRUE,
                        flamegraph_links |-> flamegraph_files,
                        cache_stats |-> IF stat_rows = <<>> THEN "no data" ELSE "chart",
                        top_funcs |-> IF top_funcs_df = <<>> THEN "no data" ELSE "chart",
                        gb_chart |-> IF bench_rows = <<>> THEN "no data" ELSE "chart"]
            /\ Completed("render")
    /\ UNCHANGED <<stackVars, lineVars, benchVars, dirVars, selectVars, envVars,
                   report_dir, selection, flamegraph_files, written>>

\* output_path.write_text(html)
WriteReport ==
    /\ pc = "write"
    /\ written' = written + 1
    /\ Completed("write")
    /\ UNCHANGED <<stackVars, lineVars, benchVars, dirVars, selectVars, envVars,
                   report_dir, selection, flamegraph_files, html>>

----------------------------------------------------------------------------
(* Inputs: lines of a collapsed-stack file, each with its line end *)

StackLinePool ==
    { <<"a", ";", "b", " ", "2">> \o NL,      \* two frames
      <<"a", ";", "a", " ", "1">> \o NL,      \* a recursive stack
      <<"b", " ", "2">> \o NL,
      <<"c", " ", "2">> \o NL,
      <<"a", " ", "x">> \o NL,                \* the count is no integer
      <<"a", "b">> \o NL }                    \* no separating space

MergeLinePool ==
    { <<"a", ";", "b", " ", "2">> \o NL,
      <<"a", ";", "a", " ", "1">> \o NL,
      <<"b", " ", "2">> \o NL,
      <<"a", " ", "x">> \o NL }

SeqsUpTo(S, n) == UNION {[1..k -> S] : k \in 0..n}

NoTotals == [w \in {"A", "B", "AB", "BA"} |-> <<>>]

StatLinePool ==
    { <<"1", ",", "2", " ", "c">> \o NL,                  \* thousands separator
      <<" ", "1", "2", " ", "m">> \o NL,                  \* indented
      <<"1", ".", "5", " ", "t", " ", "x">> \o NL,        \* a trailing column
      <<"<", "n", " ", "c", ">", " ", "b">> \o NL,        \* <not counted>
      <<"-", "5", " ", "d">> \o NL,                       \* signed
      <<"1", "e", "2", " ", "s">> \o NL,                  \* exponent
      <<"1", ".", "2", ".", "3", " ", "v">> \o NL,        \* no number
      <<"P", "e", "r", "f", " ", "s", "t", "a", "t">> \o NL,  \* a header
      <<"7">> \o NL,                                      \* one token
      NL }                                                \* blank

MassifLinePool ==
    { MemHeapPrefix \o <<"5">> \o NL,
      MemHeapPrefix \o <<"1", "2">> \o NL,
      MemHeapPrefix \o <<"x">> \o NL,                    \* value is no integer
      MemHeapPrefix \o NL,                               \* no value
      <<"t", "i", "m", "e", "=", "3">> \o NL,
      <<"#">> \o NL }

Obj(f) == [t |-> "obj", f |-> f]

Arr(a) == [t |-> "arr", a |-> a]

Str(s) == [t |-> "str", s |-> s]

Num(n) == [t |-> "num", n |-> n]

Null == [t |-> "null"]

\* entries of a benchmarks array
BenchEntryPool ==
    { Obj([k \in {"name", "cpu_time", "real_time"} |->
              IF k = "name" THEN Str(<<"a">>) ELSE Num(1)]),
      Obj([k \in {"name", "cpu_time"} |-> IF k = "name" THEN Str(<<"b">>) ELSE Num(2)]),
      Obj([k \in {"name", "real_time"} |-> IF k = "name" THEN Str(<<"c">>) ELSE Num(3)]),
      Obj([k \in {"cpu_time"} |-> Num(4)]),
      Obj(<<>>),
      Str(<<"x">>),
      Arr(<<>>),
      Num(5),
      Null }

\* benchmark files
BenchDocs ==
    {[kind |-> "unreadable"], [kind |-> "malformed"]}
    \cup {[kind |-> "json", data |-> d] : d \in
            {Obj(<<>>), Arr(<<>>), Obj([k \in {"benchmarks"} |-> Null])}
            \cup {Obj([k \in {"benchmarks"} |-> Arr(a)]) :
                     a \in SeqsUpTo(BenchEntryPool, MaxBench)}}

\* names a report may be requested under
RequestedPool == {<<"v", "1">>, <<"v", "2">>}

\* names in an input directory
NamePool ==
    { PerfStatChars \o <<"1">> \o TxtChars,
      PerfStatChars \o <<"2">> \o TxtChars,
      PerfStatChars,
      <<"x">> \o PerfStatChars,
      <<"a">> \o TxtChars }

\* the listings of a directory: any files of the pool, in any order
Listings ==
    {l \in SeqsUpTo([name : NamePool, mtime : 1..MaxMtime], MaxEntries) :
        \A i, j \in 1..Len(l) : l[i].name = l[j].name => i = j}

StacksIdle ==
    /\ fileA = <<>> /\ fileB = <<>> /\ call = "none" /\ top_n = 0
    /\ func_counts = <<>> /\ top_funcs_df = <<>> /\ totals = NoTotals

LinesIdle ==
    /\ stat_file = <<>> /\ stat_rows = <<>>
    /\ massif_file = <<>> /\ massif_rows = <<>>

BenchIdle == bench_doc = [kind |-> "unreadable"] /\ bench_rows = <<>>

DirIdle == now = 0 /\ existing = {} /\ returned = <<>>

SelectIdle == listing = <<>> /\ variant = "v2" /\ selected = <<>>

NoSelection == [stat |-> <<>>, collapsed |-> <<>>]

RunIdle ==
    /\ report_dir = Unbound /\ selection = NoSelection /\ flamegraph_files = {}
    /\ html = NoHtml /\ written = 0 /\ steps = <<>>

ReportIdle ==
    /\ cfg = [kind |-> "missing"] /\ stat_dir = <<>> /\ collapsed_dir = <<>>
    /\ tpl_present = TRUE /\ RunIdle

\* configuration files: the top-level keys present and, under "paths", its keys
TopKeys == {"paths", "project_root", "perf_stat_path", "collapsed_path", "flamegraph_path"}

PathKeySets ==
    {{"perf_stat", "collapsed", "flamegraph", "report_output"},
     {"perf_stat", "collapsed", "flamegraph"},
     {"report_output"}}

Configs ==
    {[kind |-> "missing"], [kind |-> "malformed"]}
    \cup {[kind |-> "json", keys |-> k, paths |-> {}] : k \in SUBSET (TopKeys \ {"paths"})}
    \cup {[kind |-> "json", keys |-> k \cup {"paths"}, paths |-> p] :
             k \in SUBSET (TopKeys \ {"paths"}), p \in PathKeySets}

\* listings of the input directories of a run
RunListings ==
    { <<>>,
      <<[name |-> <<"a">> \o TxtChars, mtime |-> 1]>>,
      <<[name |-> PerfStatChars \o <<"1">> \o TxtChars, mtime |-> 1],
        [name |-> PerfStatChars, mtime |-> 1]>>,
      <<[name |-> PerfStatChars, mtime |-> 2],
        [name |-> <<"a">> \o TxtChars, mtime |-> 1],
        [name |-> PerfStatChars \o <<"1">> \o TxtChars, mtime |-> 2]>> }

\* the version the report is requested for
Version == <<"v", "1">>

----------------------------------------------------------------------------
(* SpecStacks: one call of parse_collapsed_stacks on one file *)

InitStacks ==
    /\ pc = "start"
    /\ fileA \in SeqsUpTo(StackLinePool, MaxLines)
    /\ fileB = <<>>
    /\ call = "none" /\ top_n = 0
    /\ func_counts = <<>> /\ top_funcs_df = <<>> /\ totals = NoTotals
    /\ raised = "none" /\ LinesIdle /\ BenchIdle /\ DirIdle /\ SelectIdle /\ ReportIdle

CallParseCollapsedStacks ==
    /\ pc = "start"
    /\ \E n \in 0..MaxTopN : ParseCollapsedStacks("A", n)
    /\ pc' = "done"
    /\ UNCHANGED <<lineVars, benchVars, dirVars, selectVars, reportVars>>

NextStacks == CallParseCollapsedStacks

SpecStacks == InitStacks /\ [][NextStacks]_vars

----------------------------------------------------------------------------
(* SpecMerge: file A, file B and their two concatenations, each aggregated  *)
(* with the default top_n                                                  *)

InitMerge ==
    /\ pc = "A"
    /\ fileA \in SeqsUpTo(MergeLinePool, MaxPartLines)
    /\ fileB \in SeqsUpTo(MergeLinePool, MaxPartLines)
    /\ call = "none" /\ top_n = 0
    /\ func_counts = <<>> /\ top_funcs_df = <<>> /\ totals = NoTotals
    /\ raised = "none" /\ LinesIdle /\ BenchIdle /\ DirIdle /\ SelectIdle /\ ReportIdle

AfterCall(which) ==
    CASE which = "A" -> "B" [] which = "B" -> "AB" [] which = "AB" -> "BA"
      [] which = "BA" -> "done"

AggregateInput ==
    /\ pc \in {"A", "B", "AB", "BA"}
    /\ ParseCollapsedStacks(pc, DefaultTopN)
    /\ pc' = AfterCall(pc)
    /\ UNCHANGED <<lineVars, benchVars, dirVars, selectVars, reportVars>>

NextMerge == AggregateInput

SpecMerge == InitMerge /\ [][NextMerge]_vars

----------------------------------------------------------------------------
(* SpecStat: one call of parse_perf_stat on one file *)

InitStat ==
    /\ pc = "start"
    /\ stat_file \in SeqsUpTo(StatLinePool, MaxStatLines)
    /\ stat_rows = <<>> /\ massif_file = <<>> /\ massif_rows = <<>>
    /\ raised = "none" /\ StacksIdle /\ BenchIdle /\ DirIdle /\ SelectIdle /\ ReportIdle

CallParsePerfStat ==
    /\ pc = "start"
    /\ ParsePerfStat
    /\ pc' = "done"
    /\ UNCHANGED <<stackVars, massif_file, massif_rows, benchVars, dirVars, selectVars,
                   reportVars>>

NextStat == CallParsePerfStat

SpecStat == InitStat /\ [][NextStat]_vars

----------------------------------------------------------------------------
(* SpecMassif: one call of parse_valgrind_massif on one file *)

InitMassif ==
    /\ pc = "start"
    /\ massif_file \in SeqsUpTo(MassifLinePool, MaxMassifLines)
    /\ massif_rows = <<>> /\ stat_file = <<>> /\ stat_rows = <<>>
    /\ raised = "none" /\ StacksIdle /\ BenchIdle /\ DirIdle /\ SelectIdle /\ ReportIdle

CallParseValgrindMassif ==
    /\ pc = "start"
    /\ ParseValgrindMassif
    /\ pc' = IF raised' = "none" THEN "done" ELSE "failed"
    /\ UNCHANGED <<stackVars, stat_file, stat_rows, benchVars, dirVars, selectVars,
                   reportVars>>

NextMassif == CallParseValgrindMassif

SpecMassif == InitMassif /\ [][NextMassif]_vars

----------------------------------------------------------------------------
(* SpecBench: one call of parse_google_benchmark on one file *)

InitBench ==
    /\ pc = "start"
    /\ bench_doc \in BenchDocs
    /\ bench_rows = <<>>
    /\ raised = "none" /\ StacksIdle /\ LinesIdle /\ DirIdle /\ SelectIdle /\ ReportIdle

CallParseGoogleBenchmark ==
    /\ pc = "start"
    /\ ParseGoogleBenchmark
    /\ pc' = "done"
    /\ UNCHANGED <<stackVars, lineVars, dirVars, selectVars, reportVars>>

NextBench == CallParseGoogleBenchmark

SpecBench == InitBench /\ [][NextBench]_vars

----------------------------------------------------------------------------
(* SpecDir: reports requested one after the other under one base directory, *)
(* while the clock advances                                                *)

InitDir ==
    /\ pc = "start"
    /\ now = 0 /\ existing = {} /\ returned = <<>>
    /\ raised = "none" /\ StacksIdle /\ LinesIdle /\ BenchIdle /\ SelectIdle /\ ReportIdle

CallResolveReportDir ==
    /\ Len(returned) < MaxCalls
    /\ \E requested \in RequestedPool : ResolveReportDir(requested)
    /\ UNCHANGED <<pc, raised, now, stackVars, lineVars, benchVars, selectVars,
                   reportVars>>

Tick ==
    /\ now < MaxNow
    /\ now' = now + 1
    /\ UNCHANGED <<pc, raised, existing, returned, stackVars, lineVars, benchVars,
                   selectVars, reportVars>>

NextDir == CallResolveReportDir \/ Tick

SpecDir == InitDir /\ [][NextDir]_vars

----------------------------------------------------------------------------
(* SpecSelect: the newest counter-stat or collapsed-stack file of a listing *)

InitSelect ==
    /\ pc = "start"
    /\ listing \in Listings
    /\ variant \in {"v1", "v2"}
    /\ selected = <<>>
    /\ raised = "none" /\ StacksIdle /\ LinesIdle /\ BenchIdle /\ DirIdle /\ ReportIdle

CallSelectLatest ==
    /\ pc = "start"
    /\ \E kind \in {"stat", "collapsed"} :
          LET out == SelectLatest(variant, kind, listing) IN
          /\ selected' = out.name
          /\ raised' = out.raised
          /\ pc' = IF out.raised = "none" THEN kind ELSE "failed"
    /\ UNCHANGED <<listing, variant, stackVars, lineVars, benchVars, dirVars,
                   reportVars>>

NextSelect == CallSelectLatest

SpecSelect == InitSelect /\ [][NextSelect]_vars

----------------------------------------------------------------------------
(* SpecReport: one run of generate_report, step by step *)

InitReport ==
    /\ pc = "load"
    /\ variant \in {"v1", "v2"}
    /\ cfg \in Configs
    /\ stat_dir \in RunListings
    /\ collapsed_dir \in RunListings
    /\ tpl_present \in BOOLEAN
    /\ bench_doc \in {[kind |-> "unreadable"],
                      [kind |-> "json",
                       data |-> Obj([k \in {"benchmarks"} |->
                                       Arr(<<Obj([f \in {"name", "cpu_time"} |->
                                                    IF f = "name" THEN Str(<<"b">>)
                                                    ELSE Num(2)])>>)])]}
    /\ bench_rows = <<>>
    /\ now = 0 /\ returned = <<>>
    /\ existing \in {{}, {Version}}
    /\ listing = <<>> /\ selected = <<>>
    /\ raised = "none" /\ StacksIdle /\ LinesIdle /\ RunIdle

NextReport ==
    \/ LoadConfig
    \/ ResolveDirectories(Version)
    \/ MakeReportDir
    \/ SelectStat
    \/ SelectCollapsed
    \/ CollectFlamegraphs
    \/ BuildDataframes
    \/ Render
    \/ WriteReport

SpecReport == InitReport /\ [][NextReport]_vars

----------------------------------------------------------------------------
(* Properties of parse_collapsed_stacks *)

\* a valid line: it has a separating space and its trailing token is an integer
ValidLine(line) == Contains(line, " ") /\ IntParse(RSplit1(line, " ")[2]).ok

LineFrames(line) == SplitOn(RSplit1(line, " ")[1], ";")

LineCount(line) == IntParse(RSplit1(line, " ")[2]).val

InSeq(s, x) == \E i \in 1..Len(s) : s[i] = x

\* the sum of the counts of the valid lines whose stack contains f at least once
RECURSIVE SamplesWith(_, _)
SamplesWith(lines, f) ==
    IF lines = <<>> THEN 0
    ELSE (IF ValidLine(Head(lines)) /\ InSeq(LineFrames(Head(lines)), f)
          THEN LineCount(Head(lines)) ELSE 0) + SamplesWith(Tail(lines), f)

\* the frame names of the valid lines, in input order
RECURSIVE FramesInOrder(_)
FramesInOrder(lines) ==
    IF lines = <<>> THEN <<>>
    ELSE (IF ValidLine(Head(lines)) THEN LineFrames(Head(lines)) ELSE <<>>)
         \o FramesInOrder(Tail(lines))

FirstAppearance(lines, f) ==
    LET frames == FramesInOrder(lines)
    IN  CHOOSE i \in 1..Len(frames) :
            frames[i] = f /\ \A j \in 1..(i - 1) : frames[j] # f

\* C1: after parse_collapsed_stacks, the total of every function F is the sum of
\* the counts of the valid lines whose stack contains F at least once (a frame
\* occurring k times in one stack is credited count once, not k times).
C1_CreditedOncePerLine ==
    pc = "done" =>
        /\ Keys(func_counts) =
               {FramesInOrder(Input(call))[i] : i \in 1..Len(FramesInOrder(Input(call)))}
        /\ \A f \in Keys(func_counts) :
               DictGet(func_counts, f, 0) = SamplesWith(Input(call), f)

\* C4: parse_collapsed_stacks returns at most top_n records, sorted by count in
\* descending order, and records of equal count appear in the order in which
\* their function names first appeared in the input.
C4_TopNDescendingStableTies ==
    pc = "done" =>
        /\ Len(top_funcs_df) <= top_n
        /\ Descending(top_funcs_df)
        /\ \A i, j \in 1..Len(top_funcs_df) :
               (i < j /\ top_funcs_df[i].v = top_funcs_df[j].v) =>
                   FirstAppearance(Input(call), top_funcs_df[i].k)
                       < FirstAppearance(Input(call), top_funcs_df[j].k)

\* the sum of two per-function totals
SumTotals(t1, t2) ==
    [f \in (DOMAIN t1) \cup (DOMAIN t2) |->
        (IF f \in DOMAIN t1 THEN t1[f] ELSE 0) + (IF f \in DOMAIN t2 THEN t2[f] ELSE 0)]

\* C5: aggregating A and B separately and summing the per-function totals gives
\* the per-function totals of the concatenation of A and B, in either order of
\* concatenation.
C5_AggregationAdditive ==
    pc = "done" =>
        /\ SumTotals(totals["A"], totals["B"]) = totals["AB"]
        /\ totals["AB"] = totals["BA"]

\* C5 witness: both files credit a common function, and the concatenation has
\* been aggregated
C5_Witness ==
    /\ pc = "done"
    /\ fileA # <<>> /\ fileB # <<>>
    /\ \E f \in (DOMAIN totals["A"]) \cap (DOMAIN totals["B"]) :
           totals["AB"][f] = totals["A"][f] + totals["B"][f] /\ totals["A"][f] > 0
                /\ totals["B"][f] > 0

----------------------------------------------------------------------------
(* Properties of parse_perf_stat *)

Tokens(line) == SplitWs(Strip(line))

CountOf(s, c) == Cardinality({i \in 1..Len(s) : s[i] = c})

\* digit characters with an optional decimal point
PlainNumber(v) ==
    /\ \A i \in 1..Len(v) : v[i] \in Digits \cup {"."}
    /\ CountOf(v, ".") <= 1
    /\ HasDigit(v)

\* the value of a plain number: its digits, scaled by the digits after the point
PlainValue(v) ==
    LET point == IF Contains(v, ".")
                 THEN CHOOSE i \in 1..Len(v) : v[i] = "." ELSE Len(v) + 1
    IN  Norm(DecVal(Remove(v, ".")), 0 - (Len(v) + 1 - point) + (IF Contains(v, ".") THEN 1 ELSE 0))

\* the line qualifies as the specification words it
PlainAccepted(line) ==
    /\ Len(Tokens(line)) >= 2
    /\ PlainNumber(Remove(Tokens(line)[1], ","))
    /\ ~Contains(Remove(Tokens(line)[1], ","), "<")

\* a decimal literal: [sign] plain number [(e|E) [sign] digits]
DecimalLiteral(v) ==
    \E s \in 0..1, p \in 1..Len(v) :
        /\ s = 1 => v[1] \in {"+", "-"}
        /\ s < p
        /\ PlainNumber(SubSeq(v, s + 1, p))
        /\ \/ p = Len(v)
           \/ /\ p + 1 < Len(v)
              /\ v[p + 1] \in {"e", "E"}
              /\ \E x \in 0..1 :
                    /\ x = 1 => v[p + 2] \in {"+", "-"}
                    /\ p + 1 + x < Len(v)
                    /\ AllDigits(SubSeq(v, p + 2 + x, Len(v)))

\* the line qualifies as the code decides it
LiteralAccepted(line) ==
    /\ Len(Tokens(line)) >= 2
    /\ DecimalLiteral(Remove(Tokens(line)[1], ","))

LiteralValue(v) == FloatParse(v).val

FirstToken(line) == Remove(Tokens(line)[1], ",")

\* the records of the plain-number lines, in input order
RECURSIVE PlainRecords(_)
PlainRecords(lines) ==
    IF lines = <<>> THEN <<>>
    ELSE (IF PlainAccepted(Head(lines))
          THEN <<[Metric |-> Tokens(Head(lines))[2],
                  Value |-> PlainValue(FirstToken(Head(lines)))]>>
          ELSE <<>>) \o PlainRecords(Tail(lines))

\* the records of the decimal-literal lines, in input order
RECURSIVE LiteralRecords(_)
LiteralRecords(lines) ==
    IF lines = <<>> THEN <<>>
    ELSE (IF LiteralAccepted(Head(lines))
          THEN <<[Metric |-> Tokens(Head(lines))[2],
                  Value |-> LiteralValue(FirstToken(Head(lines)))]>>
          ELSE <<>>) \o LiteralRecords(Tail(lines))

\* C6 as stated: a line yields a record if and only if it has two tokens and its
\* first token, commas removed, is digits with an optional decimal point; the
\* records are (second token, value of the first token), in input order.
C6_RecordIffPlainNumber ==
    pc = "done" => stat_rows = PlainRecords(stat_file)

\* C6 as amended: a line yields a record if and only if it has two tokens and
\* its first token, commas removed, is a decimal literal (which admits a sign and
\* an exponent); the records are (second token, value), in input order, every
\* plain-number line yields its record with the plain value, and no line whose
\* first token holds '<' yields one.
C6_RecordIffDecimalLiteral ==
    pc = "done" =>
        /\ stat_rows = LiteralRecords(stat_file)
        /\ \A i \in 1..Len(stat_file) :
               /\ PlainAccepted(stat_file[i]) =>
                      /\ LiteralAccepted(stat_file[i])
                      /\ LiteralValue(FirstToken(stat_file[i]))
                             = PlainValue(FirstToken(stat_file[i]))
               /\ (Tokens(stat_file[i]) # <<>> /\ Contains(Tokens(stat_file[i])[1], "<"))
                      => ~LiteralAccepted(stat_file[i])

\* C6 witness: a file with a comma-separated plain number, a signed or exponent
\* number and a skipped line has been parsed
C6_Witness ==
    /\ pc = "done"
    /\ Len(stat_rows) = 2 /\ Len(stat_file) = 3
    /\ \E i \in 1..3 : PlainAccepted(stat_file[i]) /\ Contains(stat_file[i], ",")
    /\ \E i \in 1..3 : LiteralAccepted(stat_file[i]) /\ ~PlainAccepted(stat_file[i])

----------------------------------------------------------------------------
(* Properties of parse_valgrind_massif *)

\* a well-formed heap line: mem_heap_B= followed by an integer
HeapLine(line) ==
    /\ StartsWith(line, MemHeapPrefix)
    /\ IntParse(SubSeq(line, Len(MemHeapPrefix) + 1, Len(line))).ok

RECURSIVE HeapSizes(_)
HeapSizes(lines) ==
    IF lines = <<>> THEN <<>>
    ELSE (IF HeapLine(Head(lines))
          THEN <<IntParse(SubSeq(Head(lines), Len(MemHeapPrefix) + 1, Len(Head(lines)))).val>>
          ELSE <<>>) \o HeapSizes(Tail(lines))

\* C7: no line parser raises because of a malformed line: once the call has
\* ended, no exception has escaped it, and the heap-snapshot parser has returned
\* the sizes of all well-formed lines, numbered from 0.
C7_NoParserRaises ==
    pc \in {"done", "failed"} =>
        /\ raised = "none"
        /\ massif_rows = [i \in 1..Len(HeapSizes(massif_file)) |->
                             [HeapSize |-> HeapSizes(massif_file)[i], Snapshot |-> i - 1]]

----------------------------------------------------------------------------
(* Properties of parse_google_benchmark *)

\* the file is readable JSON whose top level has a benchmarks array
HasBenchmarks(doc) ==
    /\ doc.kind = "json"
    /\ doc.data.t = "obj"
    /\ "benchmarks" \in DOMAIN doc.data.f
    /\ doc.data.f["benchmarks"].t = "arr"

\* the entry has both a name and a timing field
HasNameAndTime(entry) ==
    entry.t = "obj" /\ {"name", "cpu_time"} \subseteq DOMAIN entry.f

RECURSIVE CompleteEntries(_)
CompleteEntries(entries) ==
    IF entries = <<>> THEN <<>>
    ELSE (IF HasNameAndTime(Head(entries))
          THEN <<[Benchmark |-> Head(entries).f["name"],
                  CpuTime |-> Head(entries).f["cpu_time"]]>>
          ELSE <<>>) \o CompleteEntries(Tail(entries))

\* C8: parse_google_benchmark never raises; it returns the empty list for an
\* unreadable or malformed file or one without a benchmarks array, and otherwise
\* one record, in array order, for each entry that has both a name and a timing
\* field, whatever the other entries are.
C8_OneRecordPerCompleteEntry ==
    pc = "done" =>
        /\ raised = "none"
        /\ bench_rows = IF HasBenchmarks(bench_doc)
                        THEN CompleteEntries(bench_doc.data.f["benchmarks"].a)
                        ELSE <<>>

----------------------------------------------------------------------------
(* Properties of _unique_version_dir *)

\* C2: no returned path existed when it was returned, and the paths returned for
\* one requested name are pairwise distinct.
C2_ReturnedPathsFresh ==
    \A i \in 1..Len(returned) :
        /\ ~returned[i].existed
        /\ \A j \in 1..(i - 1) :
               returned[j].requested = returned[i].requested
                   => returned[j].path # returned[i].path

----------------------------------------------------------------------------
(* Properties of the selection of the newest artifact *)

\* code points of the characters of file names
Ord(c) ==
    CASE c = "-" -> 45 [] c = "." -> 46 [] c = "1" -> 49 [] c = "2" -> 50
      [] c = "a" -> 97 [] c = "e" -> 101 [] c = "f" -> 102 [] c = "p" -> 112
      [] c = "r" -> 114 [] c = "s" -> 115 [] c = "t" -> 116 [] c = "x" -> 120

\* a < b as Python compares str
LexLess(a, b) ==
    \E i \in 1..(Len(b)) :
        /\ \A j \in 1..(i - 1) : j <= Len(a) /\ a[j] = b[j]
        /\ \/ i = Len(a) + 1
           \/ i <= Len(a) /\ Ord(a[i]) < Ord(b[i])

\* C3: the selected entry matches the predicate, has the maximum modification
\* time of the matching entries and, of those that share it, the
\* lexicographically greatest name, whatever the order of the listing.
C3_NewestThenGreatestName ==
    pc \in {"stat", "collapsed"} =>
        \E i \in 1..Len(listing) :
            /\ listing[i].name = selected
            /\ Matches(variant, pc, selected)
            /\ \A j \in 1..Len(listing) :
                   Matches(variant, pc, listing[j].name) =>
                       \/ listing[j].mtime < listing[i].mtime
                       \/ /\ listing[j].mtime = listing[i].mtime
                          /\ (j = i \/ LexLess(listing[j].name, selected))

----------------------------------------------------------------------------
(* Properties of generate_report *)

Position(s, x) == CHOOSE i \in 1..Len(s) : s[i] = x

\* C9: report.html is written at most once, only after the configuration was
\* loaded, both artifacts were selected, the frames were parsed and the document
\* was rendered, and a run that ends in a failure has written nothing.
C9_WrittenOnceAtTheEnd ==
    /\ written <= 1
    /\ written = 1 =>
           /\ InSeq(steps, "write")
           /\ \A st \in {"load", "select_stat", "select_collapsed", "parse", "render"} :
                  InSeq(steps, st) /\ Position(steps, st) < Position(steps, "write")
    /\ pc = "failed" => written = 0

\* C9 witness: a run that has selected, parsed, rendered and then written
C9_Witness ==
    /\ pc = "done" /\ written = 1 /\ html.rendered
    /\ selection.stat # <<>> /\ selection.collapsed # <<>>

\* the configuration has its flat keys and no "paths" section
FlatConfig ==
    /\ cfg.kind = "json"
    /\ "paths" \notin cfg.keys
    /\ {"project_root", "perf_stat_path", "collapsed_path", "flamegraph_path"}
           \subseteq cfg.keys

\* the configuration has a complete "paths" section
NestedConfig ==
    /\ cfg.kind = "json"
    /\ {"paths", "project_root"} \subseteq cfg.keys
    /\ {"perf_stat", "collapsed", "flamegraph", "report_output"} \subseteq cfg.paths

\* both required artifacts and the template are there
InputsPresent ==
    /\ Filter(variant, "stat", stat_dir) # <<>>
    /\ Filter(variant, "collapsed", collapsed_dir) # <<>>
    /\ variant = "v2" => tpl_present

\* C10: with either shape of configuration, a run whose inputs are present ends
\* with the report directory resolved and created and report.html written.
C10_BothShapesWriteReport ==
    (pc \in {"done", "failed"} /\ (FlatConfig \/ NestedConfig) /\ InputsPresent) =>
        /\ pc = "done"
        /\ written = 1
        /\ report_dir \in existing

\* the nested shape alone (the part of C10 the code satisfies)
NestedShapeWritesReport ==
    (pc \in {"done", "failed"} /\ NestedConfig /\ InputsPresent) =>
        pc = "done" /\ written = 1 /\ report_dir \in existing

====
